---- MODULE Spec2Model ----
(***************************************************************************)
(* A model of icsGen.py: text_to_ics and the functions it calls            *)
(* (assign_default_time, extract_date, process_event_segment).             *)
(*                                                                         *)
(* A text is a sequence of word tokens; "x in lowered" is containment of   *)
(* a token subsequence.  A datetime is a record [day, tod, tz]: day is the *)
(* proleptic Gregorian day number counted from 1970-01-01, tod the minute  *)
(* of the day, tz the attached tzinfo ("naive", "local" or "utc").         *)
(* The two values of the use_utc parameter are followed side by side: the  *)
(* variables events, reference_date, outcome, file_opens and log are       *)
(* indexed by the value of use_utc of the run they belong to.              *)
(***************************************************************************)
EXTENDS Integers, Sequences, FiniteSets, TLC

\* ------------------------------------------------------------------ bounds
\* the largest number of catalogue phrases joined into one input text
MaxSegs == 2

\* ------------------------------------------------------- calendar arithmetic
MinutesPerDay == 1440
MINYEAR == 1
MAXYEAR == 9999

\* day number of the civil date y-m-d (days since 1970-01-01), from the year
\* counted from March, the month counted from March and the day
days_from_march(yy, mp, d) ==
    (yy \div 400) * 146097 + (yy % 400) * 365 + (yy % 400) \div 4
    - (yy % 400) \div 100 + (153 * mp + 2) \div 5 + d - 1 - 719468

days_from_civil(y, m, d) ==
    days_from_march(IF m <= 2 THEN y - 1 ELSE y,
                    IF m > 2 THEN m - 3 ELSE m + 9, d)

\* the year of the 400-year era a day of the era falls in
year_of_era(doe) ==
    (doe - doe \div 1460 + doe \div 36524 - doe \div 146096) \div 365

\* the day of the March-based year
day_of_year(doe, yoe) == doe - (365 * yoe + yoe \div 4 - yoe \div 100)

\* 1 when the day of the March-based year falls in January or February
in_jan_feb(doy) == IF (5 * doy + 2) \div 153 < 10 THEN 0 ELSE 1

year_from(era, doe, yoe) ==
    yoe + era * 400 + in_jan_feb(day_of_year(doe, yoe))

\* the year of day number n (datetime.year)
year_of(n) ==
    year_from((n + 719468) \div 146097, (n + 719468) % 146097,
              year_of_era((n + 719468) % 146097))

IsLeap(y) == (y % 4 = 0) /\ ((y % 100 # 0) \/ (y % 400 = 0))

DaysInMonth(y, m) ==
    IF m = 2 THEN (IF IsLeap(y) THEN 29 ELSE 28)
    ELSE IF m \in {4, 6, 9, 11} THEN 30 ELSE 31

MinDay == days_from_civil(MINYEAR, 1, 1)
MaxDay == days_from_civil(MAXYEAR, 12, 31)

\* datetime.weekday(): Monday is 0; 1970-01-01 was a Thursday
weekday(dt) == (dt.day + 3) % 7

\* ------------------------------------------------------------------ values
\* Python's None, and the marker of a raised exception, shaped like a datetime
None  == [day |-> 0, tod |-> 0, tz |-> "None"]
Raise == [day |-> 0, tod |-> 0, tz |-> "Raise"]

Datetime(d, t, z) == [day |-> d, tod |-> t, tz |-> z]

\* base_date + timedelta(days=n); OverflowError outside MINYEAR..MAXYEAR
PlusDays(dt, n) ==
    IF dt.day + n < MinDay \/ dt.day + n > MaxDay THEN Raise
    ELSE [dt EXCEPT !.day = dt.day + n]

\* datetime.replace(hour=h, minute=m) on a value whose seconds are zero
ReplaceTime(dt, hm) == [dt EXCEPT !.tod = hm[1] * 60 + hm[2]]

\* datetime.replace(tzinfo=z): the wall clock is kept, the zone relabelled
ReplaceTz(dt, z) == [dt EXCEPT !.tz = z]

\* datetime.min.time()
MidnightTod == 0

\* -------------------------------------------------------------------- text
\* str.lower() on the words of the vocabulary
Lower(w) ==
    CASE w = "Dentist"  -> "dentist"
      [] w = "Friday"   -> "friday"
      [] w = "Monday"   -> "monday"
      [] w = "Meeting"  -> "meeting"
      [] w = "June"     -> "june"
      [] w = "December" -> "december"
      [] w = "Exam"     -> "exam"
      [] OTHER          -> w

LowerText(text) == [k \in 1..Len(text) |-> Lower(text[k])]

\* "needle in text" on word sequences
Contains(text, needle) ==
    \E p \in 0..(Len(text) - Len(needle)) :
        \A k \in 1..Len(needle) : text[p + k] = needle[k]

\* the catalogue of phrases an input text is built from
Phrases ==
    << <<"Dentist", "appointment", "tomorrow", "at", "2pm">>,
       <<"exam", "next", "Friday">>,
       <<"party", "the", "day", "after">>,
       <<"Meeting", "on", "19th", "June">>,
       <<"blah", "blah", ".">>,
       <<"appointment", "31", "December", "9999">>,
       <<"Exam", "meeting", "Friday", "19th", "June">>,
       <<"trip", "next", "week">>,
       <<"lunch", "Monday">>,
       <<"2pm", "review", "19th", "June">> >>

\* the words re.split cuts at: r'\s*(?:,|and|\.)\s*'
Delimiters == {",", "and", "."}

RECURSIVE JoinPhrases(_)
JoinPhrases(ps) ==
    IF Len(ps) = 0 THEN <<>>
    ELSE IF Len(ps) = 1 THEN Phrases[ps[1]]
    ELSE Phrases[ps[1]] \o <<"and">> \o JoinPhrases(Tail(ps))

\* every input text of at most MaxSegs catalogue phrases
Texts ==
    { JoinPhrases(ps) :
        ps \in UNION { [1..n -> 1..Len(Phrases)] : n \in 0..MaxSegs } }

\* re.split: the pieces between delimiters, the empty ones included
RECURSIVE SplitAt(_, _)
SplitAt(text, cur) ==
    IF Len(text) = 0 THEN <<cur>>
    ELSE IF Head(text) \in Delimiters
         THEN <<cur>> \o SplitAt(Tail(text), <<>>)
         ELSE SplitAt(Tail(text), Append(cur, Head(text)))

\* [s.strip() for s in segments if s.strip()]
RECURSIVE DropEmpty(_)
DropEmpty(segs) ==
    IF Len(segs) = 0 THEN <<>>
    ELSE IF Len(Head(segs)) = 0 THEN DropEmpty(Tail(segs))
         ELSE <<Head(segs)>> \o DropEmpty(Tail(segs))

split_segments(text) == DropEmpty(SplitAt(text, <<>>))

\* ------------------------------------------------------ assign_default_time
\* assign_default_time with the meeting/appointment test made before the exam
\* test
assign_default_time_meeting_first(segment) ==
    IF Contains(LowerText(segment), <<"meeting">>)
       \/ Contains(LowerText(segment), <<"appointment">>) THEN <<15, 0>>
    ELSE IF Contains(LowerText(segment), <<"exam">>) THEN <<9, 0>>
    ELSE <<12, 0>>

assign_default_time(segment) ==
    LET seg_lower == LowerText(segment)
    IN  IF Contains(seg_lower, <<"exam">>) THEN <<9, 0>>
        ELSE IF Contains(seg_lower, <<"meeting">>)
                \/ Contains(seg_lower, <<"appointment">>) THEN <<15, 0>>
        ELSE <<12, 0>>

\* ------------------------------------------------------------ extract_date
weekday_map ==
    << <<"monday", 0>>, <<"tuesday", 1>>, <<"wednesday", 2>>,
       <<"thursday", 3>>, <<"friday", 4>>, <<"saturday", 5>>,
       <<"sunday", 6>> >>

\* the entries of weekday_map whose name occurs in the text, in map order
WeekdayHits(lowered) ==
    { k \in 1..Len(weekday_map) : Contains(lowered, <<weekday_map[k][1]>>) }

FirstOf(S) == CHOOSE k \in S : \A j \in S : k <= j

\* the numbers the patterns read out of a word; 0 when the word is no such
\* number
DayNumber(w) ==
    CASE w = "19th" -> 19
      [] w = "31"   -> 31
      [] OTHER      -> 0

MonthOfLower(lw) ==
    CASE lw = "june"     -> 6
      [] lw = "december" -> 12
      [] OTHER           -> 0

\* the month names are matched with re.IGNORECASE
MonthNumber(w) == MonthOfLower(Lower(w))

YearNumber(w) ==
    CASE w = "9999" -> 9999
      [] OTHER      -> 0

\* the hour and minute dateparser reads out of the first match of
\* r'(\d{1,2})(:\d{2})?\s*(am|pm)?', as a minute of the day; -1 when the word
\* holds no digits
ClockOf(w) ==
    CASE w = "2pm"  -> 14 * 60
      [] w = "19th" -> 0
      [] w = "31"   -> 0
      [] w = "9999" -> 0
      [] OTHER      -> -1

\* positions of the words time_match can start in
TimeHits(text) == { k \in 1..Len(text) : ClockOf(text[k]) >= 0 }

\* positions where date_pattern matches: a day number followed by a month name
DateHits(text) ==
    { k \in 1..(Len(text) - 1) :
        DayNumber(text[k]) > 0 /\ MonthNumber(text[k + 1]) > 0 }

\* datetime.strptime(f"{day} {month} {year}", "%d %B %Y"): ValueError when the
\* month has no such day
strptime(day, month, year) ==
    IF year < MINYEAR \/ year > MAXYEAR \/ day < 1
       \/ day > DaysInMonth(year, month)
    THEN Raise
    ELSE Datetime(days_from_civil(year, month, day), MidnightTod, "naive")

\* the date the explicit pattern reads in the text, the year defaulting to
\* that of base_date
explicit_at(text, k, base_date) ==
    strptime(DayNumber(text[k]), MonthNumber(text[k + 1]),
             IF k + 2 <= Len(text) /\ YearNumber(text[k + 2]) > 0
             THEN YearNumber(text[k + 2]) ELSE year_of(base_date.day))

explicit_date(text, base_date) ==
    explicit_at(text, FirstOf(DateHits(text)), base_date)

\* None in place of the marker of a raised exception
NoneIfRaise(x) == IF x = Raise THEN None ELSE x

\* dateparser.parse(time_str) on the first time_match (lines 54-58).  The
\* library is not part of the repository: pt is what it did, "none" for a
\* None result (or a result that is never read) and "time" for today at the
\* clock time read.
parsed_time_of(text, pt) ==
    IF TimeHits(text) = {} \/ pt = "none" THEN None
    ELSE Datetime(0, ClockOf(text[FirstOf(TimeHits(text))]), "naive")

\* dateparser.parse(text, settings) on the whole text (lines 61-68): gp is
\* what the library did, "none" for a None result, "raise" for an exception
\* and "date" for the date written in the text, at midnight, when the text
\* holds one the library can read.
parsed_of(text, base_date, gp) ==
    IF gp = "raise" THEN Raise
    ELSE IF gp = "none" \/ DateHits(text) = {} THEN None
    ELSE NoneIfRaise(explicit_date(text, base_date))

\* the relative phrases of lines 34-39
HasRelative(lowered) ==
    \/ Contains(lowered, <<"the", "day", "after">>)
    \/ Contains(lowered, <<"tomorrow">>)
    \/ Contains(lowered, <<"next", "week">>)

\* line 54 is reached: no relative phrase and no weekday name returned first
parser_called(text) ==
    ~HasRelative(LowerText(text)) /\ WeekdayHits(LowerText(text)) = {}

\* what the library can have done on a text ("none" when it is not called)
GpModes(text) ==
    IF ~parser_called(text) THEN {"none"}
    ELSE IF DateHits(text) = {} THEN {"none", "raise"}
    ELSE {"none", "raise", "date"}

\* parsed_time is read only when the parser returned a date (line 72)
PtModes(text, gp) ==
    IF ~parser_called(text) \/ TimeHits(text) = {} \/ gp # "date" THEN {"none"}
    ELSE {"none", "time"}

VARIABLES
    input_text,      \* the input_text argument of text_to_ics
    now,             \* datetime.now(local_tz).replace(tzinfo=None)
    utcoffset,       \* the UTC offset of local_tz, in minutes
    segments,        \* the list segments of text_to_ics
    pc,              \* "split" before line 138, "loop" in lines 144-162,
                     \* "done" once the call has returned
    idx,             \* the number of segments the for loop has taken
    events,          \* events, per value of use_utc
    reference_date,  \* reference_date, per value of use_utc
    outcome,         \* how the call ended, per value of use_utc
    file_opens,      \* the number of open(output_filename, 'w') calls
    log              \* the record of every loop iteration so far

vars == <<input_text, now, utcoffset, segments, pc, idx, events,
          reference_date, outcome, file_opens, log>>

\* base_date of line 30
base_date_of(ref) ==
    IF ref # None THEN ref ELSE now

\* lines 34-39: the relative phrases; None when none occurs
relative_rule(lowered, base_date) ==
    IF Contains(lowered, <<"the", "day", "after">>) THEN PlusDays(base_date, 2)
    ELSE IF Contains(lowered, <<"tomorrow">>) THEN PlusDays(base_date, 1)
    ELSE IF Contains(lowered, <<"next", "week">>) THEN PlusDays(base_date, 7)
    ELSE None

\* lines 48-50
never_today(days_ahead) == IF days_ahead = 0 THEN 7 ELSE days_ahead

days_ahead_of(num, base_date) == never_today((num - weekday(base_date)) % 7)

\* lines 46-51 for the weekday names hits that occur in the text
weekday_at(hits, base_date) ==
    IF hits = {} THEN None
    ELSE PlusDays(base_date,
                  days_ahead_of(weekday_map[FirstOf(hits)][2], base_date))

\* lines 42-51: the first weekday of weekday_map that occurs in the text
weekday_rule(lowered, base_date) == weekday_at(WeekdayHits(lowered), base_date)

\* lines 71-77: the clock time of the first time_match is put into a parsed
\* date that is at midnight
combine(parsed, parsed_time) ==
    IF parsed = Raise THEN Raise
    ELSE IF parsed = None THEN None
    ELSE IF parsed_time # None /\ parsed.tod = MidnightTod
         THEN ReplaceTz([parsed EXCEPT !.tod = parsed_time.tod], "naive")
         ELSE ReplaceTz(parsed, "naive")

\* lines 54-77: the general-purpose parser
general_rule(text, base_date, gp, pt) ==
    combine(parsed_of(text, base_date, gp), parsed_time_of(text, pt))

\* lines 80-90: the explicit day-month pattern
explicit_rule(text, base_date) ==
    IF DateHits(text) = {} THEN None ELSE explicit_date(text, base_date)

\* rule_chain with the explicit pattern tried before the weekday names and
\* the general-purpose parser
rule_chain_explicit_first(text, base_date, gp, pt) ==
    << relative_rule(LowerText(text), base_date),
       explicit_rule(text, base_date),
       weekday_rule(LowerText(text), base_date),
       general_rule(text, base_date, gp, pt) >>

\* the rules in the order the function tries them
rule_chain(text, base_date, gp, pt) ==
    << relative_rule(LowerText(text), base_date),
       weekday_rule(LowerText(text), base_date),
       general_rule(text, base_date, gp, pt),
       explicit_rule(text, base_date) >>

\* the result of the first rule of the chain that does not pass
RECURSIVE first_match(_)
first_match(chain) ==
    IF Len(chain) = 0 THEN None
    ELSE IF Head(chain) # None THEN Head(chain)
    ELSE first_match(Tail(chain))

\* extract_date: an exception anywhere is caught and None returned (92-94)
extract_date(text, ref, gp, pt) ==
    NoneIfRaise(first_match(rule_chain(text, base_date_of(ref), gp, pt)))

\* --------------------------------------------------- process_event_segment
\* lines 122-128
apply_default_time(segment, parsed_datetime) ==
    IF parsed_datetime.tod = MidnightTod
    THEN ReplaceTime(parsed_datetime, assign_default_time(segment))
    ELSE parsed_datetime

\* lines 118-133, given what extract_date returned
after_extract(segment, parsed_datetime) ==
    IF parsed_datetime = None THEN None
    ELSE ReplaceTz(apply_default_time(segment, parsed_datetime), "local")

\* the datetime process_event_segment returns, None for (None, None).  The
\* summary is computed by the spaCy recognizer and is not modelled.
process_event_segment(segment, ref, gp, pt) ==
    after_extract(segment, extract_date(segment, ref, gp, pt))

\* ------------------------------------------------------------- text_to_ics
\* event_datetime.astimezone(timezone.utc) on a value labelled local_tz: the
\* wall clock moves back by the UTC offset; OverflowError when the result is
\* outside MINYEAR..MAXYEAR
astimezone_utc(dt) ==
    LET t == dt.tod - utcoffset
        d == dt.day + (t \div MinutesPerDay)
    IN  IF d < MinDay \/ d > MaxDay THEN Raise
        ELSE Datetime(d, t % MinutesPerDay, "utc")

\* lines 153-159: the value appended, Raise when the conversion failed
converted(event_datetime, use_utc) ==
    IF use_utc THEN astimezone_utc(event_datetime) ELSE event_datetime

\* how an iteration ended: at the continue of line 151, at the continue of
\* line 159, or at the append of line 161
status_of(event_datetime, conv) ==
    IF event_datetime = None THEN "unresolved"
    ELSE IF conv = Raise THEN "unconverted"
    ELSE "appended"

\* after_convert without the continue of line 159: a failed conversion falls
\* through to the append
after_convert_no_continue(evs, ref, conv, rec) ==
    IF rec.status # "unresolved"
    THEN [events |-> Append(evs, [seg |-> rec.seg, start |-> conv]),
          reference_date |-> conv, rec |-> rec]
    ELSE [events |-> evs, reference_date |-> ref, rec |-> rec]

\* after_convert with the reference date reset by a phrase that fails
after_convert_reset_on_failure(evs, ref, conv, rec) ==
    IF rec.status = "appended"
    THEN [events |-> Append(evs, [seg |-> rec.seg, start |-> conv]),
          reference_date |-> conv, rec |-> rec]
    ELSE [events |-> evs, reference_date |-> None, rec |-> rec]

\* lines 149-162, given what process_event_segment returned and what the
\* conversion gave; rec is the record kept of the iteration
after_convert(evs, ref, conv, rec) ==
    IF rec.status = "appended"
    THEN [events |-> Append(evs, [seg |-> rec.seg, start |-> conv]),
          reference_date |-> conv, rec |-> rec]
    ELSE [events |-> evs, reference_date |-> ref, rec |-> rec]

after_process(seg, evs, ref, gp, pt, resolved, event_datetime, conv) ==
    after_convert(evs, ref, conv,
        [seg |-> idx + 1, text |-> seg, ref |-> ref, gp |-> gp, pt |-> pt,
         resolved |-> resolved, emitted |-> event_datetime,
         status |-> status_of(event_datetime, conv)])

convert_step(seg, evs, ref, use_utc, gp, pt, resolved, event_datetime) ==
    after_process(seg, evs, ref, gp, pt, resolved, event_datetime,
        IF event_datetime = None THEN None
        ELSE converted(event_datetime, use_utc))

\* one iteration of the for loop (lines 144-162) of the run with use_utc:
\* the new events, the new reference_date and the record of the iteration
loop_body(seg, evs, ref, use_utc, gp, pt) ==
    convert_step(seg, evs, ref, use_utc, gp, pt,
                 extract_date(seg, ref, gp, pt),
                 process_event_segment(seg, ref, gp, pt))

Today == days_from_civil(2024, 6, 10)

\* the current moments tried: midnight and 23:30 of 2024-06-10
Nows == { Datetime(Today, t, "naive") : t \in {0, 1410} }

\* the zones tried: UTC-10 and UTC+1
UtcOffsets == {-600, 60}

Init ==
    /\ input_text \in Texts
    /\ now \in Nows
    /\ utcoffset \in UtcOffsets
    /\ segments = <<>>
    /\ pc = "split"
    /\ idx = 0
    /\ events = [u \in BOOLEAN |-> <<>>]
    /\ reference_date = [u \in BOOLEAN |-> None]
    /\ outcome = [u \in BOOLEAN |-> "running"]
    /\ file_opens = [u \in BOOLEAN |-> 0]
    /\ log = [u \in BOOLEAN |-> <<>>]

\* lines 138-142
SplitInput ==
    /\ pc = "split"
    /\ segments' = split_segments(input_text)
    /\ pc' = "loop"
    /\ events' = [u \in BOOLEAN |-> <<>>]
    /\ reference_date' = [u \in BOOLEAN |-> None]
    /\ UNCHANGED <<input_text, now, utcoffset, idx, outcome, file_opens, log>>

\* lines 144-162: the next segment, in the run of either value of use_utc
ProcessSegment ==
    /\ pc = "loop"
    /\ idx < Len(segments)
    /\ \E gp \in GpModes(segments[idx + 1]) :
       \E pt \in PtModes(segments[idx + 1], gp) :
         \E r \in {[u \in BOOLEAN |->
                     loop_body(segments[idx + 1], events[u], reference_date[u],
                               u, gp, pt)]} :
             /\ events' = [u \in BOOLEAN |-> r[u].events]
             /\ reference_date' = [u \in BOOLEAN |-> r[u].reference_date]
             /\ log' = [u \in BOOLEAN |-> Append(log[u], r[u].rec)]
    /\ idx' = idx + 1
    /\ UNCHANGED <<input_text, now, utcoffset, segments, pc, outcome, file_opens>>

\* the for loop has taken every segment
LoopDone == pc # "split" /\ idx = Len(segments)

\* end_opens without the early return of lines 164-166
end_opens_no_return(evs) == 1

\* the number of open(output_filename, 'w') calls of lines 164-184
end_opens(evs) == IF evs = <<>> THEN 0 ELSE 1

\* how lines 164-184 end: the early return with no events, else the write,
\* which succeeds or raises and is reported
end_outcome(evs, writable) ==
    IF evs = <<>> THEN "no_events"
    ELSE IF writable THEN "written"
    ELSE "write_failed"

\* lines 164-184, in the run of either value of use_utc; writable tells
\* whether open and writelines on output_filename succeed
Finish ==
    /\ pc = "loop"
    /\ LoopDone
    /\ \E writable \in BOOLEAN :
         outcome' = [u \in BOOLEAN |-> end_outcome(events[u], writable)]
    /\ file_opens' = [u \in BOOLEAN |-> file_opens[u] + end_opens(events[u])]
    /\ pc' = "done"
    /\ UNCHANGED <<input_text, now, utcoffset, segments, idx, events,
                   reference_date, log>>

Next ==
    \/ SplitInput
    \/ ProcessSegment
    \/ Finish

Spec == Init /\ [][Next]_vars

\* ------------------------------------------------------------- properties
\* the records of the iterations of both runs
Records == UNION { { log[u][k] : k \in 1..Len(log[u]) } : u \in BOOLEAN }

Last(q) == q[Len(q)]

HasTomorrow(text) == Contains(LowerText(text), <<"tomorrow">>)
HasDayAfter(text) == Contains(LowerText(text), <<"the", "day", "after">>)
HasWeekday(text)  == WeekdayHits(LowerText(text)) # {}
WeekdayNamed(text) == weekday_map[FirstOf(WeekdayHits(LowerText(text)))][2]

\* the local wall clock <<day, minute>> of an emitted start
LocalOf(dt) ==
    IF dt.tz = "utc"
    THEN << dt.day + ((dt.tod + utcoffset) \div MinutesPerDay),
            (dt.tod + utcoffset) % MinutesPerDay >>
    ELSE << dt.day, dt.tod >>

\* C1: a phrase containing "tomorrow", at any position of the phrase
\* sequence, resolves to current-date + 1 day whatever the chain reference
\* date left by the earlier phrases is.
C1_TomorrowIsCurrentDatePlusOne ==
    \A r \in Records :
        (HasTomorrow(r.text) /\ ~HasDayAfter(r.text))
        => (r.resolved # None /\ r.resolved.day = now.day + 1)

\* C2: a phrase containing "the day after" resolves to D + 1 day when D is
\* the chain reference date passed to extract_date, and to current-date + 1
\* day when there is no reference date.
C2_DayAfterIsReferencePlusOne ==
    \A r \in Records :
        HasDayAfter(r.text)
        => /\ r.resolved # None
           /\ r.ref # None => r.resolved.day = r.ref.day + 1
           /\ r.ref = None => r.resolved.day = now.day + 1

\* C3: a phrase containing a weekday name, at any position, resolves to the
\* next occurrence of that weekday strictly after the current date: 1 to 7
\* days ahead of current-date, 7 when today is that weekday, never today.
C3_WeekdayIsNextAfterCurrentDate ==
    \A r \in Records :
        (HasWeekday(r.text) /\ ~HasRelative(LowerText(r.text)))
        => /\ r.resolved # None
           /\ r.resolved.day - now.day \in 1..7
           /\ weekday(r.resolved) = WeekdayNamed(r.text)
           /\ weekday(now) = WeekdayNamed(r.text)
                => r.resolved.day - now.day = 7

\* no phrase of the run resolved to a date
NoneResolved(u) == \A k \in 1..Len(log[u]) : log[u][k].resolved = None

\* C4: when no phrase resolves to a date the run ends with zero events and
\* the "no events found" outcome and never opens the output file; the file
\* is opened only after the whole loop and only with at least one event.
C4_NoEventsNoFile ==
    \A u \in BOOLEAN :
        /\ file_opens[u] > 0 => (LoopDone /\ events[u] # <<>>)
        /\ outcome[u] = "no_events" => (file_opens[u] = 0 /\ events[u] = <<>>)
        /\ (LoopDone /\ NoneResolved(u))
             => /\ events[u] = <<>>
                /\ file_opens[u] = 0
                /\ pc = "done" => outcome[u] = "no_events"

C4_Witness ==
    \E u \in BOOLEAN :
        /\ pc = "done"
        /\ Len(log[u]) = 2
        /\ NoneResolved(u)
        /\ outcome[u] = "no_events"

\* the default time of section 4.3, as a minute of the day
DefaultMinutes(text) ==
    IF Contains(LowerText(text), <<"exam">>) THEN 9 * 60
    ELSE IF Contains(LowerText(text), <<"meeting">>)
            \/ Contains(LowerText(text), <<"appointment">>) THEN 15 * 60
    ELSE 12 * 60

\* C5: the emitted time of day is the resolver's when that is not midnight,
\* and the default time of the segment when it is midnight: 9:00 with
\* "exam", else 15:00 with "meeting" or "appointment", else 12:00.
C5_DefaultTimeOnlyAtMidnight ==
    \A r \in Records :
        r.resolved # None
        => /\ r.emitted # None
           /\ r.emitted.day = r.resolved.day
           /\ r.resolved.tod # MidnightTod => r.emitted.tod = r.resolved.tod
           /\ r.resolved.tod = MidnightTod
                => r.emitted.tod = DefaultMinutes(r.text)

C5_Witness ==
    \E u \in BOOLEAN :
        /\ Len(log[u]) = 2
        /\ log[u][1].resolved # None
        /\ log[u][1].resolved.tod = MidnightTod
        /\ Contains(LowerText(log[u][1].text), <<"exam">>)
        /\ Contains(LowerText(log[u][1].text), <<"meeting">>)
        /\ log[u][1].emitted.tod = 9 * 60
        /\ log[u][2].resolved # None
        /\ log[u][2].resolved.tod # MidnightTod
        /\ Contains(LowerText(log[u][2].text), <<"appointment">>)
        /\ log[u][2].emitted.tod = log[u][2].resolved.tod

\* the phrase of a record resolved and, in the run with use_utc, converted
Succeeded(r, u) ==
    /\ r.resolved # None
    /\ u => astimezone_utc(r.emitted) # Raise

\* the records of the phrases that succeeded, in phrase order
Successes(u) == SelectSeq(log[u], LAMBDA r : Succeeded(r, u))

\* evs holds one record per member of succ, in the same order
EventsMatch(evs, succ, u) ==
    /\ Len(evs) = Len(succ)
    /\ \A k \in 1..Len(evs) :
           /\ k <= Len(succ)
           /\ evs[k].seg = succ[k].seg
           /\ evs[k].start = converted(succ[k].emitted, u)

\* C6: a failure on one phrase never aborts the batch: every phrase is
\* processed, and the event list holds exactly one record per phrase that
\* resolved and converted, in phrase order, and none for a failed phrase.
C6_FailureSkipsOnePhrase ==
    \A u \in BOOLEAN :
        /\ Len(log[u]) = idx
        /\ (LoopDone \/ outcome[u] # "running") => Len(log[u]) = Len(segments)
        /\ \A k \in 1..Len(log[u]) :
               log[u][k].seg = k /\ log[u][k].text = segments[k]
        /\ EventsMatch(events[u], Successes(u), u)

C6_Witness ==
    \E u \in BOOLEAN :
        /\ LoopDone
        /\ Len(log[u]) = 2
        /\ log[u][1].resolved # None
        /\ ~Succeeded(log[u][1], u)
        /\ Succeeded(log[u][2], u)
        /\ Len(events[u]) = 1
        /\ events[u][1].seg = 2

\* C7: "Dentist appointment tomorrow at 2pm and exam next Friday" on
\* 2024-06-10 gives exactly two events, in this order, starting at
\* 2024-06-11 14:00 and 2024-06-14 09:00 local time.
C7_EndToEndExample ==
    (/\ input_text = JoinPhrases(<<1, 2>>)
     /\ now.day = days_from_civil(2024, 6, 10)
     /\ LoopDone)
    => \A u \in BOOLEAN :
          /\ Len(events[u]) = 2
          /\ events[u][1].seg = 1
          /\ LocalOf(events[u][1].start) = <<days_from_civil(2024, 6, 11), 14 * 60>>
          /\ events[u][2].seg = 2
          /\ LocalOf(events[u][2].start) = <<days_from_civil(2024, 6, 14), 9 * 60>>

BaseOf(r)         == base_date_of(r.ref)
WeekdayResult(r)  == NoneIfRaise(weekday_rule(LowerText(r.text), BaseOf(r)))
ExplicitResult(r) == NoneIfRaise(explicit_rule(r.text, BaseOf(r)))

WeekdayParserExplicit(wd, general, explicit) ==
    IF wd # None THEN NoneIfRaise(wd)
    ELSE IF general # None THEN NoneIfRaise(general)
    ELSE NoneIfRaise(explicit)

AllConverted == \A k \in 1..Len(log[TRUE]) : log[TRUE][k].status # "unconverted"

\* C10: use_utc changes only the representation: on the same input the runs
\* with and without it assemble the same number of events, for the same
\* phrases in the same order, and corresponding events are the same instant.
C10_UseUtcKeepsInstants ==
    AllConverted
    => /\ Len(events[TRUE]) = Len(events[FALSE])
       /\ \A k \in 1..Len(events[TRUE]) :
              /\ k <= Len(events[FALSE])
              /\ events[TRUE][k].seg = events[FALSE][k].seg
              /\ events[TRUE][k].start = astimezone_utc(events[FALSE][k].start)

====
